---- MODULE Spec2Model ----
(***************************************************************************)
(* Sleep-record service (src/app.py): the sleep_records table, the         *)
(* /api/records handler (POST = submit, GET = list) and the /api/stats     *)
(* handler (compute), run by concurrent workers that share only the table. *)
(*                                                                         *)
(* Text values (JSON strings) are sequences of their numeric parts:        *)
(* "23:30" is <<23, 30>>, "22:15:40" is <<22, 15, 40>>, "2024-01-01" is    *)
(* <<2024, 1, 1>>, "" is << >>.  TIME and DATE column values are records.  *)
(***************************************************************************)
EXTENDS Integers, Sequences, FiniteSets

\* Number of concurrent workers, each handling one request at a time.
NumProcs == 2
\* Cap on the values drawn from the id sequence (SERIAL) in one run.
MaxId == 2

Procs == 1..NumProcs

VARIABLES
    store,        \* committed rows of sleep_records
    nextId,       \* next value of the SERIAL sequence behind id
    pc,           \* each worker's position in its handler
    route,        \* the operation the worker is serving
    body,         \* the POST body of the request being served
    conn,         \* the worker's store connection: "none", "open", "closed"
    pend,         \* the tuple formed by the worker's INSERT, not yet committed
    waitFor,      \* id of the uncommitted tuple the worker's INSERT waited on
    total_count,  \* get_stats: result of the COUNT(*) query
    resp          \* the HTTP response the handler returned

vars == <<store, nextId, pc, route, body, conn, pend, waitFor, total_count, resp>>

----------------------------------------------------------------------------
\* JSON field values: a missing key / null, or a string.
NoVal == [tag |-> "none", v |-> << >>]
Str(s) == [tag |-> "str", v |-> s]

\* Python truthiness of data.get(key): None and "" are falsy.
Truthy(x) == x.tag = "str" /\ x.v # << >>

\* The request bodies submitted.  json is what request.get_json() meets:
\* "malformed" (not parseable), "falsy" (null, {}, [], 0, ""), "nondict"
\* (a non-empty array or string), "object" (a non-empty JSON object).
\* Objects carry two well-formed times and dates in every combination, and
\* each defect (missing key, empty string, value the column rejects) alone.
GoodPairs ==
    {<<Str(<<23, 30>>), Str(<<2024, 1, 1>>)>>,
     <<Str(<<22, 15, 40>>), Str(<<2024, 1, 1>>)>>,
     <<Str(<<22, 15, 40>>), Str(<<2023, 12, 31>>)>>}
BadSleep == {NoVal, Str(<< >>), Str(<<25, 0, 0>>)}
BadDates == {NoVal, Str(<<2024, 2, 30>>)}

NoBody == [json |-> "none", sleep_time |-> NoVal, record_date |-> NoVal]

Bodies ==
    {[json |-> j, sleep_time |-> NoVal, record_date |-> NoVal] :
        j \in {"malformed", "falsy", "nondict"}}
    \cup
    {[json |-> "object", sleep_time |-> g[1], record_date |-> g[2]] : g \in GoodPairs}
    \cup
    {[json |-> "object", sleep_time |-> s, record_date |-> Str(<<2024, 1, 1>>)] :
        s \in BadSleep}
    \cup
    {[json |-> "object", sleep_time |-> Str(<<23, 30>>), record_date |-> d] :
        d \in BadDates}

----------------------------------------------------------------------------
\* PostgreSQL input conversion of the INSERT parameters (TIME, DATE columns).
ValidTimeText(v) ==
    /\ Len(v) \in {2, 3}
    /\ v[1] \in 0..23
    /\ v[2] \in 0..59
    /\ (Len(v) = 3 => v[3] \in 0..59)

\* (variant: the seconds of the text are dropped)
ParseTimeNoSeconds(v) ==
    [hour |-> v[1], minute |-> v[2], second |-> 0]

ParseTime(v) ==
    [hour |-> v[1], minute |-> v[2], second |-> IF Len(v) = 3 THEN v[3] ELSE 0]

DaysInMonth(y, m) ==
    IF m \in {4, 6, 9, 11} THEN 30
    ELSE IF m = 2 THEN (IF (y % 4 = 0 /\ y % 100 # 0) \/ y % 400 = 0 THEN 29 ELSE 28)
    ELSE 31

ValidDateText(v) ==
    /\ Len(v) = 3
    /\ v[1] >= 1
    /\ v[2] \in 1..12
    /\ v[3] \in 1..DaysInMonth(v[1], v[2])

ParseDate(v) == [year |-> v[1], month |-> v[2], day |-> v[3]]

\* str(datetime.time) and date.isoformat() of the response serialization.
TimeStr(t) == <<t.hour, t.minute, t.second>>
IsoFormat(d) == <<d.year, d.month, d.day>>

\* Ordering of DATE values (ORDER BY record_date).
\* (variant: dates compared by day of month alone)
DateLTByDay(a, b) == a.day < b.day

DateLT(a, b) ==
    \/ a.year < b.year
    \/ a.year = b.year /\ a.month < b.month
    \/ a.year = b.year /\ a.month = b.month /\ a.day < b.day

----------------------------------------------------------------------------
\* Rows and their JSON form.
NoTime == [hour |-> 0, minute |-> 0, second |-> 0]
NoDate == [year |-> 0, month |-> 0, day |-> 0]
NoRow == [id |-> 0, sleep_time |-> NoTime, record_date |-> NoDate]

RowJson(r) ==
    [id |-> r.id, sleep_time |-> TimeStr(r.sleep_time), record_date |-> IsoFormat(r.record_date)]

\* The UNIQUE constraint on record_date, against the committed rows.
\* (variant: the constraint is not declared)
NoUniqueViolation(st, d) == FALSE

UniqueViolation(st, d) == \E r \in st : r.record_date = d

\* The unique index makes an INSERT wait for an uncommitted tuple with the
\* same date written by another transaction.
Holders(p, d) ==
    {q \in Procs \ {p} : pc[q] = "commit" /\ pend[q].record_date = d}

\* (variant: the index lets the second INSERT through at once)
NoLockHeld(p, d) == FALSE

LockHeld(p, d) == Holders(p, d) # {}

\* conn.commit() after the INSERT: the tuple joins the committed rows.
\* (variant: the table keeps the newest tuple only)
CommitReplacing(st, row) == {row}

CommitRows(st, row) == st \cup {row}

\* SELECT ... ORDER BY record_date DESC.
RECURSIVE OrderByDateDesc(_)
OrderByDateDesc(st) ==
    IF st = {} THEN << >>
    ELSE LET first == CHOOSE r \in st :
                          \A o \in st : ~DateLT(r.record_date, o.record_date)
         IN  <<first>> \o OrderByDateDesc(st \ {first})

\* The list comprehension building records_list.
RecordsList(rows) == [i \in 1..Len(rows) |-> RowJson(rows[i])]

\* get_stats: the loop over the fetched sleep_time values.
\* (variant: the minutes are left out of the sum)
LateMinutesHourOnly(t) ==
    IF t.hour >= 23 THEN (t.hour - 23) * 60 ELSE 0

LateMinutes(t) ==
    IF t.hour >= 23 THEN (t.hour - 23) * 60 + t.minute ELSE 0

RECURSIVE TotalLateMinutes(_)
TotalLateMinutes(st) ==
    IF st = {} THEN 0
    ELSE LET r == CHOOSE x \in st : TRUE
         IN  LateMinutes(r.sleep_time) + TotalLateMinutes(st \ {r})

----------------------------------------------------------------------------
\* Responses.  message names the JSON "message"/"status" text of the source.
NoResp ==
    [status |-> 0, message |-> "", record |-> << >>, list |-> << >>,
     total_records |-> 0, total_late_minutes |-> 0]

Failure(code, msg) == [NoResp EXCEPT !.status = code, !.message = msg]

\* The two except clauses of the POST branch.
\* (variant: only the generic except clause)
ExceptAlways500(exc) == Failure(500, "server_error")

ExceptResponse(exc) ==
    IF exc = "IntegrityError" THEN Failure(400, "duplicate")
    ELSE Failure(500, "server_error")

\* POST: the outcome of get_json() and of the checks before the INSERT.
Validate(b) ==
    IF b.json = "malformed" THEN "bad_request"
    ELSE IF b.json = "falsy" THEN "invalid_json"
    ELSE IF b.json = "nondict" THEN "attribute_error"
    ELSE IF ~Truthy(b.sleep_time) \/ ~Truthy(b.record_date) THEN "missing"
    ELSE "ok"

----------------------------------------------------------------------------
Init ==
    /\ store = {}
    /\ nextId = 1
    /\ pc = [p \in Procs |-> "idle"]
    /\ route = [p \in Procs |-> "none"]
    /\ body = [p \in Procs |-> NoBody]
    /\ conn = [p \in Procs |-> "none"]
    /\ pend = [p \in Procs |-> NoRow]
    /\ waitFor = [p \in Procs |-> 0]
    /\ total_count = [p \in Procs |-> 0]
    /\ resp = [p \in Procs |-> NoResp]

\* The handler returns response r with its connection in state c; its
\* locals are gone.
Return(p, r, c) ==
    /\ pc' = [pc EXCEPT ![p] = "done"]
    /\ resp' = [resp EXCEPT ![p] = r]
    /\ conn' = [conn EXCEPT ![p] = c]
    /\ body' = [body EXCEPT ![p] = NoBody]
    /\ pend' = [pend EXCEPT ![p] = NoRow]

\* POST /api/records arrives: the handler opens its connection and cursor.
Submit(p) ==
    /\ pc[p] = "idle"
    /\ nextId <= MaxId
    /\ \E b \in Bodies : body' = [body EXCEPT ![p] = b]
    /\ route' = [route EXCEPT ![p] = "submit"]
    /\ pc' = [pc EXCEPT ![p] = "validate"]
    /\ conn' = [conn EXCEPT ![p] = "open"]
    /\ UNCHANGED <<store, nextId, pend, waitFor, total_count, resp>>

\* get_json() and the checks before the INSERT.
CheckBody(p) ==
    /\ pc[p] = "validate"
    /\ LET v == Validate(body[p]) IN
       IF v = "ok"
       THEN /\ pc' = [pc EXCEPT ![p] = "insert"]
            /\ UNCHANGED <<resp, conn, body, pend>>
       ELSE IF v = "attribute_error"
       THEN Return(p, ExceptResponse("AttributeError"), "closed")
       ELSE IF v = "bad_request"
       THEN Return(p, Failure(400, "bad_request"), conn[p])
       ELSE IF v = "missing"
       THEN Return(p, Failure(400, "missing_params"), conn[p])
       ELSE Return(p, Failure(400, "invalid_json"), conn[p])
    /\ UNCHANGED <<store, nextId, route, waitFor, total_count>>

\* cur.execute(INSERT ... RETURNING ...).
ExecInsert(p) ==
    /\ pc[p] = "insert"
    /\ LET b == body[p] IN
       IF ~ValidTimeText(b.sleep_time.v) \/ ~ValidDateText(b.record_date.v)
       THEN /\ Return(p, ExceptResponse("DataError"), "closed")
            /\ UNCHANGED <<store, nextId, waitFor>>
       ELSE LET row == [id |-> nextId,
                        sleep_time |-> ParseTime(b.sleep_time.v),
                        record_date |-> ParseDate(b.record_date.v)]
            IN  /\ nextId' = nextId + 1
                /\ UNCHANGED store
                /\ IF UniqueViolation(store, row.record_date)
                   THEN /\ Return(p, ExceptResponse("IntegrityError"), "closed")
                        /\ UNCHANGED waitFor
                   ELSE /\ pend' = [pend EXCEPT ![p] = row]
                        /\ UNCHANGED <<resp, conn, body>>
                        /\ IF LockHeld(p, row.record_date)
                           THEN /\ pc' = [pc EXCEPT ![p] = "insert_wait"]
                                /\ \E q \in Holders(p, row.record_date) :
                                       waitFor' = [waitFor EXCEPT ![p] = pend[q].id]
                           ELSE /\ pc' = [pc EXCEPT ![p] = "commit"]
                                /\ UNCHANGED waitFor
    /\ UNCHANGED <<route, total_count>>

\* The waiting INSERT resumes once the other transaction has ended.
InsertWake(p) ==
    /\ pc[p] = "insert_wait"
    /\ ~LockHeld(p, pend[p].record_date)
    /\ IF UniqueViolation(store, pend[p].record_date)
       THEN Return(p, ExceptResponse("IntegrityError"), "closed")
       ELSE /\ pc' = [pc EXCEPT ![p] = "commit"]
            /\ UNCHANGED <<resp, conn, body, pend>>
    /\ UNCHANGED <<store, nextId, route, waitFor, total_count>>

\* conn.commit(), fetchone(), close, success response.
Commit(p) ==
    /\ pc[p] = "commit"
    /\ store' = CommitRows(store, pend[p])
    /\ Return(p, [NoResp EXCEPT !.status = 200, !.message = "recorded",
                                !.record = <<RowJson(pend[p])>>], "closed")
    /\ UNCHANGED <<nextId, route, waitFor, total_count>>

\* GET /api/records: connect, SELECT, close, serialize.
List(p) ==
    /\ pc[p] = "idle"
    /\ route' = [route EXCEPT ![p] = "list"]
    /\ Return(p, [NoResp EXCEPT !.status = 200, !.message = "list",
                                !.list = RecordsList(OrderByDateDesc(store))], "closed")
    /\ UNCHANGED <<store, nextId, waitFor, total_count>>

\* GET /api/stats: connect and SELECT COUNT(*).
StatsCount(p) ==
    /\ pc[p] = "idle"
    /\ route' = [route EXCEPT ![p] = "compute"]
    /\ pc' = [pc EXCEPT ![p] = "stats_times"]
    /\ conn' = [conn EXCEPT ![p] = "open"]
    /\ total_count' = [total_count EXCEPT ![p] = Cardinality(store)]
    /\ UNCHANGED <<store, nextId, body, pend, waitFor, resp>>

\* GET /api/stats: SELECT sleep_time, the loop, close, response.
StatsTimes(p) ==
    /\ pc[p] = "stats_times"
    /\ Return(p, [NoResp EXCEPT !.status = 200, !.message = "stats",
                                !.total_records = total_count[p],
                                !.total_late_minutes = TotalLateMinutes(store)], "closed")
    /\ total_count' = [total_count EXCEPT ![p] = 0]
    /\ UNCHANGED <<store, nextId, route, waitFor>>

\* The response is emitted and the worker takes the next request.
Emit(p) ==
    /\ pc[p] = "done"
    /\ pc' = [pc EXCEPT ![p] = "idle"]
    /\ route' = [route EXCEPT ![p] = "none"]
    /\ resp' = [resp EXCEPT ![p] = NoResp]
    /\ conn' = [conn EXCEPT ![p] = "none"]
    /\ waitFor' = [waitFor EXCEPT ![p] = 0]
    /\ UNCHANGED <<store, nextId, body, pend, total_count>>

Next ==
    \E p \in Procs :
        \/ Submit(p)
        \/ CheckBody(p)
        \/ ExecInsert(p)
        \/ InsertWake(p)
        \/ Commit(p)
        \/ List(p)
        \/ StatsCount(p)
        \/ StatsTimes(p)
        \/ Emit(p)

Spec == Init /\ [][Next]_vars

----------------------------------------------------------------------------
\* Storage faults: the store or the connection fails under a handler.

\* The INSERT raises something other than IntegrityError.
InsertFault(p) ==
    /\ pc[p] \in {"insert", "insert_wait"}
    /\ Return(p, ExceptResponse("InterfaceError"), "closed")
    /\ UNCHANGED <<store, nextId, route, waitFor, total_count>>

\* conn.commit() raises: the connection is closed with the tuple uncommitted.
CommitFault(p) ==
    /\ pc[p] = "commit"
    /\ Return(p, ExceptResponse("InterfaceError"), "closed")
    /\ UNCHANGED <<store, nextId, route, waitFor, total_count>>

\* The SELECT of the GET branch raises.
ListFault(p) ==
    /\ pc[p] = "idle"
    /\ route' = [route EXCEPT ![p] = "list"]
    /\ Return(p, Failure(500, "fetch_failed"), "closed")
    /\ UNCHANGED <<store, nextId, waitFor, total_count>>

\* A query of get_stats raises: its except clause closes nothing.
StatsFault(p) ==
    /\ pc[p] = "stats_times"
    /\ Return(p, Failure(500, "stats_failed"), "open")
    /\ total_count' = [total_count EXCEPT ![p] = 0]
    /\ UNCHANGED <<store, nextId, route, waitFor>>

NextF ==
    \/ Next
    \/ \E p \in Procs :
        \/ InsertFault(p)
        \/ CommitFault(p)
        \/ ListFault(p)
        \/ StatsFault(p)

SpecF == Init /\ [][NextF]_vars

----------------------------------------------------------------------------
\* One request at a time: a worker steps only while no other worker is
\* inside a handler (responses not yet emitted may remain).
Alone(p) == \A q \in Procs \ {p} : pc[q] \in {"idle", "done"}

SeqSubmit(p) == Alone(p) /\ Submit(p)
SeqCheckBody(p) == Alone(p) /\ CheckBody(p)
SeqExecInsert(p) == Alone(p) /\ ExecInsert(p)
SeqCommit(p) == Alone(p) /\ Commit(p)
SeqList(p) == Alone(p) /\ List(p)
SeqStatsCount(p) == Alone(p) /\ StatsCount(p)
SeqStatsTimes(p) == Alone(p) /\ StatsTimes(p)
SeqEmit(p) == Alone(p) /\ Emit(p)

NextSeq ==
    \E p \in Procs :
        \/ SeqSubmit(p)
        \/ SeqCheckBody(p)
        \/ SeqExecInsert(p)
        \/ SeqCommit(p)
        \/ SeqList(p)
        \/ SeqStatsCount(p)
        \/ SeqStatsTimes(p)
        \/ SeqEmit(p)

SpecSeq == Init /\ [][NextSeq]_vars

----------------------------------------------------------------------------
\* C1: in every reachable state, under any interleaving of submit, list and
\* compute requests (storage faults included), no two stored records have
\* the same record_date.
C1_UniqueRecordDate ==
    \A r1 \in store : \A r2 \in store :
        r1.record_date = r2.record_date => r1 = r2

\* Two dates are stored and a further submit was refused as a duplicate.
C1_Witness ==
    /\ Cardinality(store) = 2
    /\ \E p \in Procs : pc[p] = "done" /\ resp[p] = Failure(400, "duplicate")

C2_AsHMS(v) == <<v[1], v[2], IF Len(v) = 3 THEN v[3] ELSE 0>>

\* C2: with one request handled at a time, a submit of a well-formed
\* (sleep_time, record_date) whose date is not stored succeeds and returns
\* the new record (id, sleep_time as HH:MM:SS, record_date); the store keeps
\* every earlier row and holds exactly one row for the date; every list
\* taken afterwards holds every stored record and exactly one entry for the
\* date, equal to the returned record.
C2_SubmitThenListed ==
    [][\A p \in Procs :
        LET b == body[p] IN
        /\ ( /\ pc[p] = "insert" /\ pc'[p] # "insert"
             /\ ValidTimeText(b.sleep_time.v) /\ ValidDateText(b.record_date.v)
             /\ ~\E r \in store : IsoFormat(r.record_date) = b.record_date.v )
           => pc'[p] = "commit"
        /\ (pc[p] = "commit" /\ pc'[p] # "commit")
           => /\ pc'[p] = "done"
              /\ resp'[p].status = 200
              /\ Len(resp'[p].record) = 1
              /\ LET j == resp'[p].record[1] IN
                 /\ j.sleep_time = C2_AsHMS(b.sleep_time.v)
                 /\ j.record_date = b.record_date.v
                 /\ store \subseteq store'
                 /\ Cardinality({r \in store' : IsoFormat(r.record_date) = j.record_date}) = 1
                 /\ \E r \in store' : RowJson(r) = j
        /\ (pc[p] = "idle" /\ route'[p] = "list" /\ resp'[p].status = 200)
           => LET L == resp'[p].list IN
              /\ \A r \in store : \E i \in 1..Len(L) : L[i] = RowJson(r)
              /\ \A q \in Procs :
                    (pc[q] = "done" /\ route[q] = "submit" /\ resp[q].status = 200)
                    => LET j == resp[q].record[1] IN
                       /\ Cardinality({i \in 1..Len(L) : L[i].record_date = j.record_date}) = 1
                       /\ \E i \in 1..Len(L) : L[i] = j
      ]_vars

\* A submit with a seconds part has succeeded and a later list of two
\* records carries the record it returned.
C2_Witness ==
    \E p \in Procs : \E q \in Procs :
        /\ pc[p] = "done" /\ route[p] = "submit" /\ resp[p].status = 200
        /\ resp[p].record[1].sleep_time[3] # 0
        /\ pc[q] = "done" /\ route[q] = "list" /\ resp[q].status = 200
        /\ Len(resp[q].list) = 2
        /\ \E i \in 1..2 : resp[q].list[i] = resp[p].record[1]

C3_DatePresent(p) ==
    \E r \in store : IsoFormat(r.record_date) = body[p].record_date.v

\* C3 as stated: a submit whose record_date is already stored fails with the
\* duplicate-specific 400 whatever sleep_time it carries, and leaves the
\* store's rows as they were.
C3_AnySleepTime ==
    [][\A p \in Procs :
        (pc[p] = "insert" /\ pc'[p] # "insert" /\ C3_DatePresent(p))
        => /\ pc'[p] = "done"
           /\ resp'[p] = Failure(400, "duplicate")
           /\ store' = store
      ]_vars

\* C3 amended: a submit whose record_date is already stored and whose
\* sleep_time is a well-formed time fails with the duplicate-specific 400
\* (never a 500), and the store's rows and row count are unchanged by it.
C3_DuplicateRejected ==
    [][\A p \in Procs :
        ( /\ pc[p] = "insert" /\ pc'[p] # "insert"
          /\ C3_DatePresent(p)
          /\ ValidTimeText(body[p].sleep_time.v) )
        => /\ pc'[p] = "done"
           /\ resp'[p] = Failure(400, "duplicate")
           /\ store' = store
           /\ Cardinality(store') = Cardinality(store)
      ]_vars

\* A submit for a stored date, met by no concurrent insert, was refused.
C3_Witness ==
    \E p \in Procs :
        /\ pc[p] = "done" /\ route[p] = "submit"
        /\ store # {}
        /\ waitFor[p] = 0
        /\ resp[p] = Failure(400, "duplicate")

\* C4: of the well-formed submits racing for one absent record_date exactly
\* one succeeds: an insert that waited on a competitor's uncommitted tuple
\* ends with the duplicate 400 (no 500, no unhandled exception) and changes
\* nothing, the row then stored for the date being the competitor's; every
\* commit succeeds and leaves exactly one row for its date; an insert whose
\* date no stored row and no competitor's tuple carries goes on to commit
\* whatever other dates are being inserted.
C4_SameDateRace ==
    [][\A p \in Procs :
        LET b == body[p]
            d == pend[p].record_date
        IN
        /\ (pc[p] = "insert_wait" /\ pc'[p] # "insert_wait")
           => /\ pc'[p] = "done"
              /\ resp'[p] = Failure(400, "duplicate")
              /\ store' = store
              /\ Cardinality({r \in store : r.record_date = d}) = 1
              /\ \E r \in store : r.record_date = d /\ r.id = waitFor[p]
        /\ (pc[p] = "commit" /\ pc'[p] # "commit")
           => /\ resp'[p].status = 200
              /\ Cardinality({r \in store' : r.record_date = d}) = 1
        /\ (pc[p] = "insert" /\ pc'[p] = "insert_wait")
           => \E q \in Procs \ {p} :
                 /\ pc[q] = "commit"
                 /\ IsoFormat(pend[q].record_date) = b.record_date.v
                 /\ waitFor'[p] = pend[q].id
        /\ ( /\ pc[p] = "insert" /\ pc'[p] # "insert"
             /\ ValidTimeText(b.sleep_time.v) /\ ValidDateText(b.record_date.v)
             /\ ~\E r \in store : IsoFormat(r.record_date) = b.record_date.v
             /\ ~\E q \in Procs \ {p} :
                    pc[q] = "commit" /\ IsoFormat(pend[q].record_date) = b.record_date.v )
           => pc'[p] = "commit"
      ]_vars

\* Both responses of a race: the loser's duplicate 400 and the success of
\* the competitor it waited on.
C4_Witness ==
    \E p \in Procs : \E q \in Procs \ {p} :
        /\ pc[p] = "done" /\ resp[p] = Failure(400, "duplicate")
        /\ waitFor[p] # 0
        /\ pc[q] = "done" /\ route[q] = "submit" /\ resp[q].status = 200
        /\ resp[q].record[1].id = waitFor[p]

C5_LacksField(b) ==
    \/ b.json # "object"
    \/ b.sleep_time.tag = "none"
    \/ b.record_date.tag = "none"

\* C5 as stated: a submit whose body has no usable JSON object, or lacks
\* sleep_time or record_date, fails with HTTP 400 and writes no row.
C5_MissingFieldIs400 ==
    [][\A p \in Procs :
        (pc[p] = "validate" /\ pc'[p] # "validate" /\ C5_LacksField(body[p]))
        => /\ pc'[p] = "done"
           /\ resp'[p].status = 400
           /\ store' = store
      ]_vars

C6_Lateness(t) ==
    IF t.hour < 23 THEN 0 ELSE (t.hour - 23) * 60 + t.minute

RECURSIVE C6_Sum(_)
C6_Sum(st) ==
    IF st = {} THEN 0
    ELSE LET r == CHOOSE x \in st : TRUE
         IN  C6_Lateness(r.sleep_time) + C6_Sum(st \ {r})

\* C6: with one request handled at a time, compute returns total_records =
\* the number of stored records and total_late_minutes = the sum over the
\* stored records of lateness(sleep_time), lateness(t) being
\* (hour - 23) * 60 + minute for hour >= 23 and 0 for hour < 23.
C6_StatsExact ==
    [][\A p \in Procs :
        (pc[p] = "stats_times" /\ pc'[p] = "done" /\ resp'[p].status = 200)
        => /\ resp'[p].total_records = Cardinality(store)
           /\ resp'[p].total_late_minutes = C6_Sum(store)
      ]_vars

\* The documented scenario: a 23:30 record and a record before 23:00 give
\* two records and 30 late minutes.
C6_Witness ==
    \E p \in Procs :
        /\ pc[p] = "done" /\ route[p] = "compute"
        /\ resp[p].total_records = 2
        /\ resp[p].total_late_minutes = 30
        /\ \E r \in store : r.sleep_time.hour < 23

C7_Key(d) == d[1] * 10000 + d[2] * 100 + d[3]

\* C7: list returns every stored record exactly once, each entry's
\* record_date strictly later than that of the entry after it.
C7_ListDescending ==
    [][\A p \in Procs :
        (pc[p] = "idle" /\ route'[p] = "list" /\ resp'[p].status = 200)
        => LET L == resp'[p].list IN
           /\ Len(L) = Cardinality(store)
           /\ {L[i] : i \in 1..Len(L)} = {RowJson(r) : r \in store}
           /\ \A i \in 1..(Len(L) - 1) :
                 C7_Key(L[i].record_date) > C7_Key(L[i + 1].record_date)
      ]_vars

\* A list of two records, the one of the later year first.
C7_Witness ==
    \E p \in Procs :
        /\ pc[p] = "done" /\ route[p] = "list"
        /\ Len(resp[p].list) = 2
        /\ resp[p].list[1].record_date[1] > resp[p].list[2].record_date[1]

\* C8: records are append-only.  Every stored row stays in the store
\* unchanged; the store changes only by a successful submit adding the one
\* row it returns; list, compute and every failed submit (validation,
\* duplicate, storage fault) leave the rows as they were.
C8_AppendOnly ==
    [][/\ store \subseteq store'
       /\ store' # store
          => \E p \in Procs :
                /\ pc[p] = "commit" /\ pc'[p] = "done"
                /\ resp'[p].status = 200
                /\ resp'[p].record = <<RowJson(pend[p])>>
                /\ store' = store \cup {pend[p]}
                /\ Cardinality(store') = Cardinality(store) + 1
       /\ \A p \in Procs :
             ( /\ pc[p] # "done" /\ pc'[p] = "done"
               /\ (route'[p] \in {"list", "compute"} \/ resp'[p].status # 200) )
             => store' = store
      ]_vars

\* Two rows are stored and a submit has failed on a storage fault.
C8_Witness ==
    /\ Cardinality(store) = 2
    /\ \E p \in Procs :
          /\ pc[p] = "done" /\ route[p] = "submit"
          /\ resp[p] = Failure(500, "server_error")

\* C9 as stated: a request that opened a store connection has closed it by
\* the time its response is emitted, on every exit path.
C9_ConnectionReleased ==
    \A p \in Procs : pc[p] = "done" => conn[p] # "open"

\* C10 as stated: the total_records that compute returns is the number of
\* records whose lateness it summed into total_late_minutes.
C10_OneSnapshot ==
    [][\A p \in Procs :
        (pc[p] = "stats_times" /\ pc'[p] = "done" /\ resp'[p].status = 200)
        => resp'[p].total_records = Cardinality(store)
      ]_vars

====
